---------------------------- MODULE Spec2Model ----------------------------
(***************************************************************************)
(* Background-video components and theme provider of the coming_soon site. *)
(*                                                                         *)
(* Five video controllers are modelled, each with the React state, the     *)
(* DOM it renders and the asynchronous work it starts:                     *)
(*   "dualTheme"   AuroraStarsBackground  (AuroraStarsBackground.tsx:17)   *)
(*   "deviceClass" BackgroundVideo        (unnamed/part_000:16)            *)
(*   "simple"      BackgroundVideo        (AuroraStarsBackground.tsx:283)  *)
(*   "twoElement"  BackgroundVideo        (unnamed/part_000:287)           *)
(*   "tapToPlay"   BackgroundVideo        (AuroraStarsBackground.tsx:466)  *)
(* together with the ThemeProvider / useTheme pair of theme-context.tsx    *)
(* and the document root the provider writes (classes, color variables),   *)
(* on the dual-theme page under a provider and on a page that has the      *)
(* provider and no video controller ("themeOnly").                         *)
(*                                                                         *)
(* Granularity: one step is one browser task.  A state setter called in a  *)
(* timer, a media event, a promise reaction or a passive effect stores the *)
(* new state; React renders it in a task of its own (RenderUpdate) and runs*)
(* the passive effects of that render in a further task (FlushEffects),    *)
(* each effect with the values of the render it belongs to.  Timers and    *)
(* events may come in between.  An update made in a discrete event (click, *)
(* touchstart, resize, a change of the theme store) is rendered with its   *)
(* effects in the event's own step.  A mount is the first render (Mount),  *)
(* its effects (MountEffect), the client render and the effects of that.   *)
(* Time is not measured: a pending timer may fire at any later step.       *)
(***************************************************************************)
EXTENDS Naturals, FiniteSets, Sequences, TLC

(***************************************************************************)
(* Bounds of the model.                                                    *)
(***************************************************************************)
\* cap of the history counters (runs of handleInteraction, writes of the
\* InteractionRecord, playback requests of one load sequence)
MaxCount == 3

(***************************************************************************)
(* User agents.  A user agent string is modelled by the set of keywords    *)
(* it contains, case folded (every test in the source is case-insensitive: *)
(* the /i flag, or toLowerCase() before the test).                         *)
(***************************************************************************)
UA_ChromeDesktop == {"chrome", "safari"}
UA_SafariMac     == {"safari"}
UA_SafariIPhone  == {"iphone", "mobile", "safari"}
UA_ChromeAndroid == {"android", "chrome", "mobile", "safari"}
UA_Firefox       == {"gecko"}
UA_FirefoxOS     == {"gecko", "mobile"}
UA_OperaMini     == {"opera mini"}
\* a Chrome-based embedded browser that announces an iPhone as well
UA_ChromeWithIPhone == {"chrome", "iphone", "mobile", "safari"}

UserAgents == {UA_ChromeDesktop, UA_SafariMac, UA_SafariIPhone,
               UA_ChromeAndroid, UA_Firefox, UA_FirefoxOS, UA_OperaMini,
               UA_ChromeWithIPhone}

\* window.innerWidth values offered to mount and resize
MobileMaxWidth == 768
Widths == {375, MobileMaxWidth, MobileMaxWidth + 1, 1280}

\* isSafariOrIOS without its Chrome exclusion
isSafariOrIOS_noChromeTest(agent) ==
    agent \cap {"ipad", "iphone", "ipod", "safari"} # {}

\* /iPad|iPhone|iPod|Safari/i.test(ua) && !/Chrome/i.test(ua)
isSafariOrIOS(agent) ==
    /\ agent \cap {"ipad", "iphone", "ipod", "safari"} # {}
    /\ "chrome" \notin agent

\* /android|webos|iphone|ipad|ipod|blackberry|iemobile|opera mini/i.test(ua)
\*   || window.innerWidth <= 768
MobileKeywords == {"android", "webos", "iphone", "ipad", "ipod",
                   "blackberry", "iemobile", "opera mini"}

checkMobile(agent, width) ==
    \/ agent \cap MobileKeywords # {}
    \/ width <= MobileMaxWidth

\* detectMobile with the width test left out
detectMobile_keywordsOnly(agent, width) == agent \cap MobileKeywords # {}

\* window.innerWidth <= 768
\*   || /Android|webOS|iPhone|iPad|iPod|BlackBerry|IEMobile|Opera Mini/i.test(ua)
detectMobile(agent, width) ==
    \/ width <= MobileMaxWidth
    \/ agent \cap MobileKeywords # {}

\* the simple controller's own list:
\* mobileKeywords.some(keyword => userAgent.includes(keyword)) || innerWidth <= 768
mobileKeywords == {"mobile", "android", "iphone", "ipad", "ipod",
                   "blackberry", "windows phone"}

checkMobileSimple(agent, width) ==
    \/ agent \cap mobileKeywords # {}
    \/ width <= MobileMaxWidth

(***************************************************************************)
(* Video keys.  The dual-theme controller owns one <video> per theme, the  *)
(* device-class and the simple controller a single one ("main"), the       *)
(* two-element controller one per device class.                            *)
(***************************************************************************)
ThemeKeys  == {"light", "dark"}
DeviceKeys == {"desktop", "mobile"}
AllKeys    == {"light", "dark", "main"} \cup DeviceKeys

Keys(comp) == IF comp = "dualTheme" THEN ThemeKeys
              ELSE IF comp = "twoElement" THEN DeviceKeys
              ELSE {"main"}

NoneReady == [k \in AllKeys |-> FALSE]
AllZero   == [k \in AllKeys |-> 0]

VARIABLES
    \* ---- the page and the browser session
    component,      \* which controller RootLayout renders
    hasProvider,    \* whether a ThemeProvider is an ancestor of the controller
    ua,             \* navigator.userAgent (keyword set)
    innerWidth,     \* window.innerWidth
    sessionStorage, \* sessionStorage['videoInteraction']: "null" or "true"
    playReturnsPromise, \* video.play() returns a promise in this browser
    phase,          \* "none" | "rendered" (first render committed, its
                    \* effects pending) | "live" | "dead" | "crashed"
    \* ---- next-themes store and ThemeProvider state
    storedTheme,    \* the preference next-themes keeps in localStorage (its
                    \* default when nothing is stored): "light" | "dark" |
                    \* "system"
    theme,          \* "undefined" | "light" | "dark" | "system"
    resolvedTheme,  \* "undefined" | "light" | "dark"
    themeLoaded,    \* ThemeProvider's isThemeLoaded as it last rendered it
    queuedLoaded,   \* isThemeLoaded as setIsThemeLoaded left it; the next
                    \* render shows it
    \* ---- the mounted controller instance
    inst,           \* the committed render: the state and context it was
                    \* rendered with, refs and DOM (see InitialInst)
    queued,         \* React state as the state setters left it (see stateOf);
                    \* the next render shows it
    effects,        \* passive effects of the committed render not yet run
    \* ---- asynchronous work started by the instance
    seq,            \* per key: position of loadVideo: "unloaded", "waiting",
                    \* "playing", "settled", "failed"; simple and tap-to-
                    \* play controller: "delay" (100 ms timer), "autoplay",
                    \* "loaded", "refused"
    loadTimer,      \* per key: the 3000 ms fallback timer is pending
    retry,          \* per key: the 100 ms retry and its play() promise
    \* ---- the document root, as updateThemeVariables writes it
    frame,          \* the requestAnimationFrame callbacks not yet run: "none",
                    \* or the palette the last one requested will write.  The
                    \* callbacks of a frame run in the order of their requests
                    \* and each writes both classes and all eight variables,
                    \* so the last one decides what the frame leaves.
    root,           \* documentElement: classes 'dark' and 'light', color variables
    \* ---- history, kept for the properties only
    hist

vars == <<component, hasProvider, playReturnsPromise, ua, innerWidth, sessionStorage, phase,
          storedTheme, theme, resolvedTheme, themeLoaded, queuedLoaded,
          inst, queued, effects,
          seq, loadTimer, retry, frame, root, hist>>

\* what no step changes: the page and the browser
page == <<component, hasProvider, playReturnsPromise, ua>>

\* what next-themes holds
preference == <<storedTheme, theme, resolvedTheme>>

\* the next-themes store and ThemeProvider's state
store == <<preference, themeLoaded, queuedLoaded>>


(***************************************************************************)
(* Theme context (theme-context.tsx).                                      *)
(***************************************************************************)
\* createContext's default value: what useContext returns without a provider.
\* kind is the JavaScript type of the value ("object", or "undefined").
ThemeContext == [kind |-> "object", isDarkMode |-> FALSE, isThemeLoaded |-> FALSE]

\* const currentTheme = theme === 'system' ? resolvedTheme : theme
currentTheme(th, resolved) == IF th = "system" THEN resolved ELSE th

\* the value ThemeProvider publishes (useMemo over isDarkMode, isThemeLoaded)
contextValue(th, resolved, loaded) ==
    [kind |-> "object",
     isDarkMode |-> currentTheme(th, resolved) = "dark",
     isThemeLoaded |-> loaded]

\* isDarkMode as ThemeProvider computes it from the store
isDarkModeNow == contextValue(theme, resolvedTheme, themeLoaded).isDarkMode

\* useContext(ThemeContext)
useContext(provided, th, resolved, loaded) ==
    IF provided THEN contextValue(th, resolved, loaded) ELSE ThemeContext

\* JavaScript truthiness of a context value: every object is truthy
Truthy(context) == context.kind \notin {"undefined", "null"}

\* useTheme(): throws when the context is falsy, else returns it
useTheme(provided, th, resolved, loaded) ==
    IF ~Truthy(useContext(provided, th, resolved, loaded))
    THEN [kind |-> "throw", isDarkMode |-> FALSE, isThemeLoaded |-> FALSE]
    ELSE useContext(provided, th, resolved, loaded)

(***************************************************************************)
(* The controller instance: React state, refs, and the DOM it rendered.    *)
(***************************************************************************)
InitialInst(ctx) ==
    [ isClient             |-> FALSE,      \* useState(false)
      userInteracted       |-> FALSE,      \* useState(false)
      videoReady           |-> NoneReady,  \* useState({light:false,dark:false});
                                           \* the single flag is entry "main"
      activeVideo          |-> "light",    \* useState('light')
      isMobile             |-> FALSE,      \* useState(false)
      needsInteraction     |-> FALSE,      \* useState(false), tap-to-play only
      isDarkMode           |-> ctx.isDarkMode,     \* useTheme() at last render
      isThemeLoaded        |-> ctx.isThemeLoaded,
      transitionTimeoutRef |-> "null",     \* argument of the pending commit timer
      pendingCommits       |-> 0,          \* commit timers set, not fired or cleared
      listeners            |-> {},         \* document listeners of handleInteraction
      resizeListener       |-> FALSE,      \* window 'resize' listener
      opacity              |-> AllZero,    \* element.style.opacity of each <video>
      rendered             |-> AllZero,    \* style.opacity React last rendered
      fallbackOpacity      |-> 1,          \* poster <div>
      overlay              |-> FALSE,      \* interaction overlay is in the DOM
      effectError          |-> FALSE ]     \* an effect of this mount threw

themeVariant(isDark) == IF isDark THEN "dark" ELSE "light"

\* the videoReady entry a load sequence on element k writes
readyKey(k) == IF k \in ThemeKeys THEN k ELSE "main"

\* ref={isMobile ? null : videoRef} on the desktop element,
\* ref={isMobile ? videoRef : null} on the mobile one: videoRef.current
\* after the commit of st
boundElement(st) == IF st.isMobile THEN "mobile" ELSE "desktop"

\* The JSX of one render: the style props and the overlay condition.
videoOpacityProp(st, k) ==
    IF component = "dualTheme"
    THEN IF (st.isDarkMode <=> k = "dark") /\ st.videoReady[k] /\ st.userInteracted
         THEN 1 ELSE 0
    ELSE IF component = "deviceClass"
    THEN IF st.videoReady[k] /\ st.userInteracted THEN 1 ELSE 0
    ELSE IF component = "twoElement"
    THEN IF st.videoReady["main"] /\ st.userInteracted /\ k = boundElement(st)
         THEN 1 ELSE 0
    ELSE IF st.videoReady[k] THEN 1 ELSE 0

fallbackOpacityProp(st) ==
    IF component = "dualTheme"
    THEN IF \/ (~st.videoReady["light"] /\ ~st.isDarkMode)
            \/ (~st.videoReady["dark"] /\ st.isDarkMode)
            \/ ~st.userInteracted
         THEN 1 ELSE 0
    ELSE IF component \in {"deviceClass", "twoElement"}
    THEN IF ~st.videoReady["main"] \/ ~st.userInteracted THEN 1 ELSE 0
    ELSE IF st.videoReady["main"] THEN 0 ELSE 1

\* {isSafariOrIOS() && !userInteracted && (...)}; simple: {!userInteracted && (...)};
\* tap-to-play: {needsInteraction && (...)}
overlayRendered(st) ==
    IF component = "simple" THEN ~st.userInteracted
    ELSE IF component = "tapToPlay" THEN st.needsInteraction
    ELSE isSafariOrIOS(ua) /\ ~st.userInteracted

\* React commits the render of state st over the DOM of old: the SSR branch
\* (isClient false) has no <video> and no overlay; a style property is
\* written only when its prop differs from the previously rendered prop.
Render(old, st) ==
    IF ~st.isClient
    THEN [st EXCEPT !.opacity = AllZero, !.rendered = AllZero,
                    !.fallbackOpacity = 1, !.overlay = FALSE]
    ELSE [st EXCEPT
            !.opacity = [k \in AllKeys |->
                IF k \notin Keys(component) THEN 0
                ELSE IF ~old.isClient \/ videoOpacityProp(st, k) # old.rendered[k]
                THEN videoOpacityProp(st, k)
                ELSE old.opacity[k]],
            !.rendered = [k \in AllKeys |->
                IF k \in Keys(component) THEN videoOpacityProp(st, k) ELSE 0],
            !.fallbackOpacity = fallbackOpacityProp(st),
            !.overlay = overlayRendered(st)]

\* nextRef.current.play() returned undefined and .catch was read from it
\* (line 150): the effect body ends there, after clearTimeout and the two
\* style.opacity assignments and before setTimeout
playThrows(r) == [r EXCEPT
    !.transitionTimeoutRef = "null",
    !.pendingCommits = IF r.transitionTimeoutRef = "null" THEN @ ELSE @ - 1,
    !.opacity = [k \in AllKeys |->
        IF k = themeVariant(r.isDarkMode) THEN 1
        ELSE IF k = r.activeVideo THEN 0
        ELSE r.opacity[k]],
    !.effectError = TRUE]

\* themeSwitchEffect with the videoReady test of the incoming video left out
themeSwitchEffect_noReadyTest(r) ==
    IF ~r.isThemeLoaded \/ ~r.userInteracted THEN r
    ELSE IF themeVariant(r.isDarkMode) = r.activeVideo THEN r
    ELSE IF r.isClient /\ ~playReturnsPromise THEN playThrows(r)
    ELSE [r EXCEPT
            !.transitionTimeoutRef = themeVariant(r.isDarkMode),
            !.pendingCommits = IF r.transitionTimeoutRef = "null" THEN @ + 1 ELSE @,
            !.opacity = [k \in AllKeys |->
                IF ~r.isClient THEN r.opacity[k]
                ELSE IF k = themeVariant(r.isDarkMode) THEN 1
                ELSE IF k = r.activeVideo THEN 0
                ELSE r.opacity[k]]]

\* themeSwitchEffect without the clearTimeout of the pending commit timer
themeSwitchEffect_noClearTimeout(r) ==
    IF ~r.isThemeLoaded \/ ~r.userInteracted THEN r
    ELSE IF themeVariant(r.isDarkMode) = r.activeVideo THEN r
    ELSE IF r.isClient /\ r.videoReady[themeVariant(r.isDarkMode)]
            /\ ~playReturnsPromise
    THEN playThrows(r)
    ELSE [r EXCEPT
            !.transitionTimeoutRef = themeVariant(r.isDarkMode),
            !.pendingCommits = @ + 1,
            !.opacity = [k \in AllKeys |->
                IF ~r.isClient THEN r.opacity[k]
                ELSE IF k = themeVariant(r.isDarkMode)
                     THEN IF r.videoReady[k] THEN 1 ELSE r.opacity[k]
                ELSE IF k = r.activeVideo THEN 0
                ELSE r.opacity[k]]]

\* "Handle theme switching" effect body, run on the committed render r:
\* clearTimeout(transitionTimeoutRef.current); for a ready incoming video
\* style.opacity = '1', currentTime = 0 and play().catch(...); style.opacity
\* = '0' on the outgoing one; then transitionTimeoutRef.current =
\* setTimeout(..., 300).  The refs are null while the SSR branch is rendered.
themeSwitchEffect(r) ==
    IF ~r.isThemeLoaded \/ ~r.userInteracted THEN r
    ELSE IF themeVariant(r.isDarkMode) = r.activeVideo THEN r
    ELSE IF r.isClient /\ r.videoReady[themeVariant(r.isDarkMode)]
            /\ ~playReturnsPromise
    THEN playThrows(r)
    ELSE [r EXCEPT
            !.transitionTimeoutRef = themeVariant(r.isDarkMode),
            !.pendingCommits = IF r.transitionTimeoutRef = "null" THEN @ + 1 ELSE @,
            !.opacity = [k \in AllKeys |->
                IF ~r.isClient THEN r.opacity[k]
                ELSE IF k = themeVariant(r.isDarkMode)
                     THEN IF r.videoReady[k] THEN 1 ELSE r.opacity[k]
                ELSE IF k = r.activeVideo THEN 0
                ELSE r.opacity[k]]]

\* dependency list of the theme switch effect changed between two renders;
\* touched: setVideoReady stored a new object (its updater always builds one)
themeDepsChanged(old, st, touched) ==
    \/ touched
    \/ old.isDarkMode # st.isDarkMode
    \/ old.isThemeLoaded # st.isThemeLoaded
    \/ old.userInteracted # st.userInteracted
    \/ old.activeVideo # st.activeVideo
    \/ old.videoReady # st.videoReady

\* The React state of the instance: the useState values (setMounted of the
\* tap-to-play controller is isClient, setVideoLoaded of the simple one is
\* videoReady.main).  touched: setVideoReady stored a new object since the
\* last render.
stateOf(st) ==
    [ isClient         |-> st.isClient,
      userInteracted   |-> st.userInteracted,
      videoReady       |-> st.videoReady,
      activeVideo      |-> st.activeVideo,
      isMobile         |-> st.isMobile,
      needsInteraction |-> st.needsInteraction,
      touched          |-> FALSE ]

\* the component function called with the state q: what the next render of
\* the committed render st works with
withState(st, q) ==
    [st EXCEPT !.isClient = q.isClient,
               !.userInteracted = q.userInteracted,
               !.videoReady = q.videoReady,
               !.activeVideo = q.activeVideo,
               !.isMobile = q.isMobile,
               !.needsInteraction = q.needsInteraction]

\* React state or context differs, so the component renders again
needsRender(old, st, touched) ==
    \/ touched
    \/ old.isClient # st.isClient
    \/ old.userInteracted # st.userInteracted
    \/ old.videoReady # st.videoReady
    \/ old.activeVideo # st.activeVideo
    \/ old.isMobile # st.isMobile
    \/ old.isDarkMode # st.isDarkMode
    \/ old.isThemeLoaded # st.isThemeLoaded
    \/ old.needsInteraction # st.needsInteraction

\* unmountCleanup that leaves the document listeners registered
unmountCleanup_keepsListeners(st) ==
    [st EXCEPT !.transitionTimeoutRef = "null",
               !.pendingCommits = IF st.transitionTimeoutRef = "null" THEN @ ELSE @ - 1,
               !.resizeListener = FALSE, !.overlay = FALSE]

\* unmountCleanup without the clearTimeout of the transition timer
unmountCleanup_keepsTimer(st) ==
    [st EXCEPT !.listeners = {}, !.resizeListener = FALSE, !.overlay = FALSE]

\* effect cleanups at unmount: remove the document listeners, clear the
\* transition timer, remove the resize listener; the DOM subtree is removed
unmountCleanup(st) ==
    [st EXCEPT !.listeners = {}, !.transitionTimeoutRef = "null",
               !.pendingCommits = IF st.transitionTimeoutRef = "null" THEN @ ELSE @ - 1,
               !.resizeListener = FALSE, !.overlay = FALSE]

\* const handleResize = () => { setIsMobile(checkMobile()) }  (detectMobile in
\* the two-element controller), applied to the React state q
handleResize(q, width) ==
    [q EXCEPT !.isMobile = IF component = "twoElement"
                           THEN detectMobile(ua, width)
                           ELSE checkMobile(ua, width)]

\* "Initialize videos" effect: its dependencies are isClient, userInteracted,
\* (isThemeLoaded) and loadVideo, which is rebuilt when userInteracted changes.
\* "Load and play video" effect of the simple controller: isClient,
\* userInteracted.
initDepsChanged(old, st) ==
    \/ old.isClient # st.isClient
    \/ old.userInteracted # st.userInteracted
    \/ (component = "dualTheme" /\ old.isThemeLoaded # st.isThemeLoaded)

\* loadsStarted without the userInteracted tests of the effect and of loadVideo
loadsStarted_noInteractionTest(st) ==
    IF /\ component \in {"dualTheme", "deviceClass", "twoElement", "simple"}
       /\ st.isClient
       /\ (component = "dualTheme" => st.isThemeLoaded)
    THEN IF component = "twoElement" THEN {boundElement(st)} ELSE Keys(component)
    ELSE {}

\* loadsStarted without the isThemeLoaded test of the effect
loadsStarted_noThemeTest(st) ==
    IF /\ component \in {"dualTheme", "deviceClass", "twoElement", "simple"}
       /\ st.isClient /\ st.userInteracted
    THEN IF component = "twoElement" THEN {boundElement(st)} ELSE Keys(component)
    ELSE {}

\* keys whose loadVideo runs past its guards when the "Initialize videos"
\* effect runs on the committed render st (the tap-to-play controller has
\* no such effect)
loadsStarted(st) ==
    IF /\ component \in {"dualTheme", "deviceClass", "twoElement", "simple"}
       /\ st.isClient /\ st.userInteracted
       /\ (component = "dualTheme" => st.isThemeLoaded)
    THEN IF component = "twoElement" THEN {boundElement(st)} ELSE Keys(component)
    ELSE {}

\* The passive effects React schedules with the commit of the render st
\* that follows the render old: those whose dependencies changed.  An effect
\* that returns at its first test (128, 133 of the theme switch effect; if
\* (!isClient) return of the resize effect; the tests of the "Initialize
\* videos" effect and of loadVideo) does nothing when it runs and is left out.
effectsOf(old, st, touched) ==
    {e \in {"theme"} : /\ component = "dualTheme"
                       /\ themeDepsChanged(old, st, touched)
                       /\ st.isThemeLoaded /\ st.userInteracted
                       /\ themeVariant(st.isDarkMode) # st.activeVideo}
    \cup {e \in {"init"} : initDepsChanged(old, st) /\ loadsStarted(st) # {}}
    \cup {e \in {"resize"} : /\ component \in {"deviceClass", "twoElement"}
                             /\ old.isClient # st.isClient /\ st.isClient}
    \cup {e \in {"interaction"} : /\ component = "simple"
                                  /\ old.userInteracted # st.userInteracted}


(***************************************************************************)
(* Initial states.                                                         *)
(***************************************************************************)
InitialHist ==
    [ handlerRuns     |-> 0,        \* runs of handleInteraction in this mount
      storageWrites   |-> 0,        \* sessionStorage.setItem calls in this mount
      playRequests    |-> AllZero,  \* video.play() calls of each load sequence
      waitResolutions |-> AllZero,  \* times the load wait let loadVideo go on
      resolvedBy      |-> [k \in AllKeys |-> "none"],
                                    \* what ended the load wait: "canplaythrough",
                                    \* "timeout" or "error"
      hasInteracted   |-> FALSE ]   \* const hasInteracted of the mount effect

\* documentElement before any frame ran: neither class, no inline variables
InitialRoot == [dark |-> FALSE, light |-> FALSE, palette |-> "none"]

\* the preferences next-themes may find stored
Preferences == {"light", "dark", "system"}

InitCommon ==
    /\ ua \in UserAgents
    /\ playReturnsPromise \in BOOLEAN
    /\ sessionStorage \in {"null", "true"}
    /\ phase = "none"
    /\ storedTheme \in (IF hasProvider THEN Preferences ELSE {"system"})
    /\ theme = "undefined"
    /\ resolvedTheme = "undefined"
    /\ themeLoaded = FALSE
    /\ queuedLoaded = FALSE
    /\ inst = InitialInst(ThemeContext)
    /\ queued = stateOf(InitialInst(ThemeContext))
    /\ effects = {}
    /\ seq = [k \in AllKeys |-> "unloaded"]
    /\ loadTimer = NoneReady
    /\ retry = [k \in AllKeys |-> "none"]
    /\ frame = "none"
    /\ root = InitialRoot
    /\ hist = InitialHist

\* RootLayout renders AuroraStarsBackground (layout.tsx:44), with or without
\* a ThemeProvider above it.  This controller reads the user agent only
\* through isSafariOrIOS and never reads the width: one agent of each kind.
InitAurora ==
    /\ component = "dualTheme"
    /\ hasProvider \in BOOLEAN
    /\ innerWidth = 1280
    /\ ua \in {UA_ChromeDesktop, UA_SafariIPhone}
    /\ InitCommon

\* RootLayout renders BackgroundVideo (layout.tsx:95)
InitDevice ==
    /\ component = "deviceClass"
    /\ hasProvider = FALSE
    /\ innerWidth \in Widths
    /\ InitCommon

\* a page under ThemeProvider without a video controller
InitThemeOnly ==
    /\ component = "themeOnly"
    /\ hasProvider = TRUE
    /\ innerWidth = 1280
    /\ ua = UA_ChromeDesktop
    /\ playReturnsPromise = TRUE
    /\ sessionStorage = "null"
    /\ InitCommon

\* RootLayout renders the two-element BackgroundVideo
InitTwoElement ==
    /\ component = "twoElement"
    /\ hasProvider = FALSE
    /\ innerWidth \in Widths
    /\ InitCommon

\* RootLayout renders the simple BackgroundVideo, which never reads the
\* InteractionRecord
InitSimple ==
    /\ component = "simple"
    /\ hasProvider = FALSE
    /\ innerWidth \in Widths
    /\ sessionStorage = "null"
    /\ InitCommon

\* RootLayout renders the tap-to-play BackgroundVideo, which keeps no
\* InteractionRecord
InitTapToPlay ==
    /\ component = "tapToPlay"
    /\ hasProvider = FALSE
    /\ innerWidth \in Widths
    /\ sessionStorage = "null"
    /\ InitCommon

Inc(n) == IF n < MaxCount THEN n + 1 ELSE n

(***************************************************************************)
(* Render and effects.  A state setter only stores the new state.  React   *)
(* renders it in a later task of its own, and runs the passive effects of  *)
(* that render in a task after the commit; timers and events can come in   *)
(* between.  An update made in a discrete event (click, touchstart,        *)
(* resize) is rendered, and its effects are flushed, before the event's    *)
(* task ends.                                                              *)
(***************************************************************************)
\* the controllers that keep the InteractionRecord in sessionStorage
persistsRecord == component \in {"dualTheme", "deviceClass", "twoElement"}

\* mountEffect that does not consult the InteractionRecord
mountEffect_ignoresRecord(st) ==
    LET c == [st EXCEPT !.isClient = TRUE,
                        !.isMobile = IF component \in {"deviceClass", "tapToPlay"}
                                     THEN checkMobile(ua, innerWidth)
                                     ELSE IF component = "twoElement"
                                     THEN detectMobile(ua, innerWidth)
                                     ELSE IF component = "simple"
                                     THEN checkMobileSimple(ua, innerWidth)
                                     ELSE st.isMobile]
    IN  IF component = "tapToPlay"
        THEN [c EXCEPT !.needsInteraction = isSafariOrIOS(ua)]
        ELSE IF ~isSafariOrIOS(ua)
        THEN [c EXCEPT !.userInteracted = TRUE]
        ELSE [c EXCEPT !.listeners = {"touchstart", "click"}]

\* the state setters and listener registrations of the mount effect, as the
\* state and the listeners they leave.  In the simple controller the
\* interaction effect runs in the same flush, on the initial render
\* (userInteracted false), and registers the listeners; the effects of the
\* render that follows remove them again if userInteracted became true.
\* Tap-to-play: setMounted(true); setIsMobile(checkMobile());
\* setNeedsInteraction(needsUserInteraction).
mountEffect(st) ==
    LET c == [st EXCEPT !.isClient = TRUE,
                        !.isMobile = IF component \in {"deviceClass", "tapToPlay"}
                                     THEN checkMobile(ua, innerWidth)
                                     ELSE IF component = "twoElement"
                                     THEN detectMobile(ua, innerWidth)
                                     ELSE IF component = "simple"
                                     THEN checkMobileSimple(ua, innerWidth)
                                     ELSE st.isMobile]
    IN  IF component = "simple"
        THEN [c EXCEPT !.userInteracted = ~isSafariOrIOS(ua),
                       !.listeners = {"touchstart", "click"}]
        ELSE IF component = "tapToPlay"
        THEN [c EXCEPT !.needsInteraction = isSafariOrIOS(ua)]
        ELSE IF sessionStorage = "true" \/ ~isSafariOrIOS(ua)
        THEN [c EXCEPT !.userInteracted = TRUE]
        ELSE [c EXCEPT !.listeners = {"touchstart", "click"}]

\* "Handle window resize" effect of the device-class controllers: ...;
\* window.addEventListener('resize', handleResize)
resizeEffect(r, effs) ==
    IF "resize" \in effs THEN [r EXCEPT !.resizeListener = TRUE] ELSE r

\* "Handle user interaction" effect of the simple controller, dependency
\* userInteracted: the cleanup removes both document listeners, the body
\* registers them again unless userInteracted is true
interactionEffect(r, effs) ==
    IF "interaction" \in effs
    THEN [r EXCEPT !.listeners = IF r.userInteracted THEN {}
                                 ELSE {"touchstart", "click"}]
    ELSE r

\* React runs the pending passive effects effs of the committed render i,
\* each with the values of that render; q is the React state.
\*   i      the instance after them: an error thrown by an effect is caught
\*          by no error boundary (layout.tsx has none), so React unmounts the
\*          tree, which runs the effect cleanups
\*   q      the state after their state setters.  The effects of the first
\*          render are the mount effect's; the other effects of that flush
\*          return at their isClient / userInteracted tests.  The two-element
\*          controller's resize effect calls handleResize() before it
\*          registers it ("Initial check"), which reads the width of that
\*          moment.
\*   loads  the load sequences the "Initialize videos" effect starts
\*   timer  the tap-to-play mount effect started the 100 ms timer of
\*          playVideo: if (!needsUserInteraction) setTimeout(() =>
\*          playVideo(), 100)
\*   read   const hasInteracted of the mount effect
afterEffects(i, q, effs) ==
    IF "mount" \in effs
    THEN [i     |-> [i EXCEPT !.listeners = mountEffect(withState(i, q)).listeners],
          q     |-> stateOf(mountEffect(withState(i, q))),
          loads |-> {},
          timer |-> (component = "tapToPlay" /\ ~isSafariOrIOS(ua)),
          read  |-> (persistsRecord /\ sessionStorage = "true")]
    ELSE LET e == IF "theme" \in effs THEN themeSwitchEffect(i) ELSE i
             f == resizeEffect(interactionEffect(e, effs), effs)
         IN  [i     |-> IF f.effectError THEN unmountCleanup(f) ELSE f,
              q     |-> IF "resize" \in effs /\ component = "twoElement"
                        THEN handleResize(q, innerWidth) ELSE q,
              loads |-> IF "init" \in effs THEN loadsStarted(i) ELSE {},
              timer |-> FALSE,
              read  |-> hist.hasInteracted]

\* React renders st over the committed render i and flushes the effects of
\* the new render in the same task (a render at discrete-event priority);
\* without a change of state or context it does not render
commitFrom(i, q, st) ==
    IF ~needsRender(i, st, q.touched)
    THEN [i |-> st, q |-> stateOf(st), loads |-> {}, timer |-> FALSE,
          read |-> hist.hasInteracted]
    ELSE afterEffects(Render(i, st), stateOf(st), effectsOf(i, st, q.touched))

\* An update at discrete-event priority.  i0 is the instance and q1 the
\* React state as the event's handlers left them; dark and loaded are the
\* context values of the render.  React first runs the passive effects that
\* are still pending, then renders every queued update and flushes the
\* effects of that render.
syncRender(i0, q1, dark, loaded) ==
    LET a == afterEffects(i0, q1, effects)
        c == commitFrom(a.i, a.q, [withState(a.i, a.q) EXCEPT
                                      !.isDarkMode = dark,
                                      !.isThemeLoaded = loaded])
    IN  IF a.i.effectError THEN a
        ELSE [c EXCEPT !.loads = a.loads \cup c.loads,
                       !.timer = a.timer, !.read = a.read]

\* React renders the state q over the committed render i at default
\* priority, with the context values dark and loaded: the effects of the new
\* render are left pending
renderOf(i, q, dark, loaded) ==
    LET st == [withState(i, q) EXCEPT !.isDarkMode = dark,
                                      !.isThemeLoaded = loaded]
    IN  IF needsRender(i, st, q.touched)
        THEN [i    |-> Render(i, st),
              q    |-> [q EXCEPT !.touched = FALSE],
              effs |-> effectsOf(i, st, q.touched)]
        ELSE [i |-> i, q |-> q, effs |-> {}]

\* providerEffectRuns whose effect depends on theme and tests if (theme)
providerEffectRuns_testsTheme(th, resolved) ==
    /\ th # theme
    /\ th # "undefined"

\* ThemeProvider's "On theme resolution" effect, dependencies currentTheme and
\* isDarkMode, after the commit of a render with the store at (th, resolved):
\* it runs when currentTheme changed, and goes past if (currentTheme) to
\* updateThemeVariables(isDarkMode) and setIsThemeLoaded(true) when
\* currentTheme is defined
providerEffectRuns(th, resolved) ==
    /\ currentTheme(th, resolved) # currentTheme(theme, resolvedTheme)
    /\ currentTheme(th, resolved) # "undefined"

\* the phase of a mounted instance after a flush of effects
phaseOf(i) == IF i.effectError THEN "dead" ELSE "live"

\* the client render is in the DOM (its effects may still be pending)
clientRendered == phase = "live" /\ inst.isClient

\* a state setter was called and its update is not rendered yet
updateQueued == queued # stateOf(inst)

\* loadVideo up to its first await: video.load(), the two listeners, the timer;
\* simple controller: const timer = setTimeout(loadVideo, 100)
loadSeq(s, started) ==
    [k \in AllKeys |-> IF k \notin started THEN s[k]
                       ELSE IF component = "simple" THEN "delay" ELSE "waiting"]

loadTimers(started) ==
    [k \in AllKeys |-> IF k \in started /\ component # "simple"
                       THEN TRUE ELSE loadTimer[k]]

startLoads(started) ==
    /\ seq' = loadSeq(seq, started)
    /\ loadTimer' = loadTimers(started)

\* setState_ignoresUnmount: the update of an unmounted component is stored
setState_ignoresUnmount(q) == q

\* a state setter stores the state q; called on an unmounted component it
\* is ignored by React
setState(q) == IF phase = "live" THEN q ELSE queued

(***************************************************************************)
(* Mount and unmount.                                                      *)
(***************************************************************************)
\* ThemeProvider is mounted: the page has one and no effect error has
\* unmounted the tree
providerMounted ==
    /\ hasProvider
    /\ ~inst.effectError

\* The controller function runs for the first time: useTheme(), useState
\* initial values, the SSR fallback branch.  Its effects are pending.  Like
\* every render, it shows the state stored so far (ThemeProvider's
\* isThemeLoaded).
Mount ==
    /\ component # "themeOnly"
    /\ phase = "none" \/ (phase = "dead" /\ ~inst.effectError)
    /\ LET ctx == IF component = "dualTheme"
                  THEN useTheme(hasProvider, theme, resolvedTheme, queuedLoaded)
                  ELSE ThemeContext
       IN  /\ IF ctx.kind = "throw"
              THEN /\ phase' = "crashed"
                   /\ effects' = {}
                   /\ UNCHANGED <<inst, queued>>
              ELSE /\ phase' = "rendered"
                   /\ effects' = {"mount"}
                   /\ inst' = InitialInst(ctx)
                   /\ queued' = stateOf(InitialInst(ctx))
    /\ themeLoaded' = queuedLoaded
    /\ seq' = [k \in AllKeys |-> "unloaded"]
    /\ loadTimer' = NoneReady
    /\ retry' = [k \in AllKeys |-> "none"]
    /\ hist' = InitialHist
    /\ UNCHANGED <<frame, root, page, innerWidth, sessionStorage, preference,
                   queuedLoaded>>

\* The passive effects of the first render: the "Client-side
\* initialization" effect stores its state and registers the listeners; the
\* render that shows the state is a later task (RenderUpdate).
MountEffect ==
    /\ phase = "rendered"
    /\ LET a == afterEffects(inst, queued, effects)
       IN  /\ inst' = a.i
           /\ queued' = a.q
           /\ seq' = [seq EXCEPT !["main"] = IF a.timer THEN "delay" ELSE @]
           /\ hist' = [hist EXCEPT !.hasInteracted = a.read]
    /\ phase' = "live"
    /\ effects' = {}
    /\ UNCHANGED <<frame, root, page, innerWidth, sessionStorage, store,
                   loadTimer, retry>>

\* React renders the stored state at default priority and commits it: the
\* controller's state, and ThemeProvider's isThemeLoaded, which reaches the
\* controller as a new context value.  The effects of the render before are
\* flushed first (FlushEffects); those of this render are left pending.
RenderUpdate ==
    /\ phase = "live" \/ (phase \in {"none", "dead"} /\ providerMounted)
    /\ effects = {}
    /\ (phase = "live" /\ updateQueued) \/ queuedLoaded # themeLoaded
    /\ themeLoaded' = queuedLoaded
    /\ IF phase = "live"
       THEN LET r == renderOf(inst, queued, inst.isDarkMode,
                              IF hasProvider THEN queuedLoaded
                              ELSE inst.isThemeLoaded)
            IN  /\ inst' = r.i
                /\ queued' = r.q
                /\ effects' = r.effs
       ELSE UNCHANGED <<inst, queued, effects>>
    /\ UNCHANGED <<frame, root, page, innerWidth, sessionStorage, preference,
                   queuedLoaded, phase, seq, loadTimer, retry, hist>>

\* the browser runs the pending passive effects of the committed render
FlushEffects ==
    /\ phase = "live"
    /\ effects # {}
    /\ LET a == afterEffects(inst, queued, effects)
       IN  /\ inst' = a.i
           /\ queued' = a.q
           /\ startLoads(a.loads)
           /\ phase' = phaseOf(a.i)
    /\ effects' = {}
    /\ UNCHANGED <<frame, root, page, innerWidth, sessionStorage, store, retry,
                   hist>>

\* return () => clearTimeout(timer): the simple controller's load effect
\* cancels its 100 ms timer; no other controller cancels its load sequence,
\* and the tap-to-play mount effect returns no cleanup for its timer
clearLoadDelay(s) ==
    [k \in AllKeys |-> IF component = "simple" /\ s[k] = "delay"
                       THEN "unloaded" ELSE s[k]]

\* The controller is unmounted at any time after its first render: React
\* runs the passive effects that are still pending, then renders the tree
\* without it and runs the cleanups.
Unmount ==
    /\ phase \in {"rendered", "live"}
    /\ LET a == afterEffects(inst, queued, effects)
       IN  /\ inst' = unmountCleanup(a.i)
           /\ queued' = a.q
           /\ seq' = clearLoadDelay(
                        [loadSeq(seq, a.loads) EXCEPT
                            !["main"] = IF a.timer THEN "delay" ELSE @])
           /\ loadTimer' = loadTimers(a.loads)
           /\ hist' = [hist EXCEPT !.hasInteracted = a.read]
           /\ themeLoaded' = IF a.i.effectError THEN themeLoaded
                             ELSE queuedLoaded
    /\ phase' = "dead"
    /\ effects' = {}
    /\ UNCHANGED <<frame, root, page, innerWidth, sessionStorage, preference,
                   queuedLoaded, retry>>

(***************************************************************************)
(* Gestures.                                                               *)
(***************************************************************************)
\* handleInteraction without its setUserInteracted(true)
handleInteraction_noSetState(q) == q

\* const handleInteraction = () => { setUserInteracted(true); setItem; remove x2 }:
\* the state it stores (the listeners are removed by the action)
handleInteraction(q) == [q EXCEPT !.userInteracted = TRUE]

\* the instance and the phase after a gesture whose handlers ran on a
\* mounted instance, left the listeners heard and stored the state q1
gestureRendered(heard, q1) ==
    LET i0 == [inst EXCEPT !.listeners = heard]
        c == syncRender(i0, q1, inst.isDarkMode, queuedLoaded)
    IN  /\ inst' = c.i
        /\ queued' = c.q
        /\ startLoads(c.loads)
        /\ phase' = phaseOf(c.i)
        /\ effects' = {}
        /\ themeLoaded' = queuedLoaded

\* A touchstart anywhere in the document: only the document listener hears
\* it.  What the listener did to the listener set stays after unmount; its
\* state setter is ignored then.
Touchstart ==
    /\ phase \in {"live", "dead"}
    /\ IF "touchstart" \in inst.listeners
       THEN /\ IF phase = "live"
               THEN gestureRendered({}, handleInteraction(queued))
               ELSE /\ inst' = [inst EXCEPT !.listeners = {}]
                    /\ UNCHANGED <<queued, seq, loadTimer, phase, effects,
                                   themeLoaded>>
            /\ sessionStorage' = IF persistsRecord THEN "true" ELSE sessionStorage
            /\ hist' = [hist EXCEPT
                          !.handlerRuns = Inc(@),
                          !.storageWrites = IF persistsRecord THEN Inc(@) ELSE @]
       ELSE UNCHANGED <<inst, queued, effects, seq, loadTimer, phase,
                        sessionStorage, hist, themeLoaded>>
    /\ UNCHANGED <<frame, root, page, innerWidth, preference, queuedLoaded,
                   retry>>

\* onClick of the overlay <div>: setUserInteracted(true); setItem(...)
\* (the simple controller's onClick has no setItem)
overlayOnClick(q) == [q EXCEPT !.userInteracted = TRUE]

\* the click reaches the document listener.  The update of the overlay's
\* onClick is rendered, and its effects flushed, before the event leaves
\* React's root: in the simple controller that flush is the interaction
\* effect's cleanup, so the document listener is gone when the event arrives.
documentHears(st) ==
    /\ "click" \in st.listeners
    /\ ~(component = "simple" /\ st.overlay)

\* A click.  While the overlay is in the DOM it covers the page (fixed,
\* inset 0, z-index 50), so the click hits it: its onClick runs, then the
\* event bubbles to the document and the document listener runs.
clickHandlers(q) ==
    LET a == IF inst.overlay THEN overlayOnClick(q) ELSE q
    IN  IF documentHears(inst) THEN handleInteraction(a) ELSE a

\* the document listeners after the click
clickHeard == IF documentHears(inst) THEN {} ELSE inst.listeners

Click ==
    /\ component # "tapToPlay"
    /\ phase \in {"live", "dead"}
    /\ IF inst.overlay \/ documentHears(inst)
       THEN IF phase = "live"
            THEN gestureRendered(clickHeard, clickHandlers(queued))
            ELSE /\ inst' = [inst EXCEPT !.listeners = clickHeard]
                 /\ UNCHANGED <<queued, seq, loadTimer, phase, effects,
                                themeLoaded>>
       ELSE UNCHANGED <<inst, queued, effects, seq, loadTimer, phase,
                        themeLoaded>>
    /\ sessionStorage' = IF persistsRecord /\ (inst.overlay \/ documentHears(inst))
                         THEN "true" ELSE sessionStorage
    /\ hist' = [hist EXCEPT
                  !.handlerRuns = IF documentHears(inst) THEN Inc(@) ELSE @,
                  !.storageWrites =
                      IF ~persistsRecord THEN @
                      ELSE IF inst.overlay /\ documentHears(inst) THEN Inc(Inc(@))
                      ELSE IF inst.overlay \/ documentHears(inst) THEN Inc(@)
                      ELSE @]
    /\ UNCHANGED <<frame, root, page, innerWidth, preference, queuedLoaded,
                   retry>>

(***************************************************************************)
(* loadVideo: the load wait, the playback request, the retry.  Its state   *)
(* setters run in a timer, a media event or a promise reaction: the update *)
(* is stored and rendered later (RenderUpdate).                            *)
(***************************************************************************)
\* setVideoReady that replaces the whole object instead of one entry
setVideoReady_everyEntry(k, value) ==
    setState([queued EXCEPT !.videoReady = [j \in AllKeys |->
                                              IF j \in Keys(component)
                                              THEN value ELSE FALSE],
                            !.touched = TRUE])

\* setVideoReady(prev => ({ ...prev, [type]: value }))
setVideoReady(k, value) ==
    setState([queued EXCEPT !.videoReady[readyKey(k)] = value,
                            !.touched = TRUE])

\* loadVideo goes on after the awaited load wait: const playPromise =
\* video.play(); if (playPromise) { await ... }; when play() returns no
\* promise readiness is marked at once
afterLoadWait(k, by) ==
    /\ hist' = [hist EXCEPT !.playRequests[k] = Inc(@),
                            !.waitResolutions[k] = Inc(@),
                            !.resolvedBy[k] = by]
    /\ IF playReturnsPromise
       THEN /\ seq' = [seq EXCEPT ![k] = "playing"]
            /\ UNCHANGED queued
       ELSE /\ seq' = [seq EXCEPT ![k] = "settled"]
            /\ queued' = setVideoReady(k, TRUE)

\* onCanPlay: the canplaythrough event while loadVideo waits
CanPlayThrough(k) ==
    /\ phase \in {"live", "dead"}
    /\ seq[k] = "waiting"
    /\ afterLoadWait(k, "canplaythrough")
    /\ UNCHANGED <<frame, root, page, innerWidth, sessionStorage, store, phase,
                   inst, effects, loadTimer, retry>>

\* MediaError whose catch block stores { light: false, dark: false }
MediaError_failsBoth(k) ==
    /\ phase \in {"live", "dead"}
    /\ seq[k] = "waiting"
    /\ seq' = [seq EXCEPT ![k] = "failed"]
    /\ queued' = setState([queued EXCEPT !.videoReady = NoneReady,
                                         !.touched = TRUE])
    /\ hist' = [hist EXCEPT !.resolvedBy[k] = "error"]
    /\ UNCHANGED <<frame, root, page, innerWidth, sessionStorage, store, phase,
                   inst, effects, loadTimer, retry>>

\* MediaError whose onError resolves the wait instead of rejecting it
MediaError_resolves(k) ==
    /\ phase \in {"live", "dead"}
    /\ seq[k] = "waiting"
    /\ afterLoadWait(k, "error")
    /\ UNCHANGED <<frame, root, page, innerWidth, sessionStorage, store, phase,
                   inst, effects, loadTimer, retry>>

\* onError: the media error event while loadVideo waits; reject() reaches the
\* catch block, which stores false
MediaError(k) ==
    /\ phase \in {"live", "dead"}
    /\ seq[k] = "waiting"
    /\ seq' = [seq EXCEPT ![k] = "failed"]
    /\ queued' = setVideoReady(k, FALSE)
    /\ hist' = [hist EXCEPT !.resolvedBy[k] = "error"]
    /\ UNCHANGED <<frame, root, page, innerWidth, sessionStorage, store, phase,
                   inst, effects, loadTimer, retry>>

\* LoadTimeout whose resolve() restarts a sequence that a media error ended
LoadTimeout_lateResolve(k) ==
    /\ phase \in {"live", "dead"}
    /\ loadTimer[k]
    /\ loadTimer' = [loadTimer EXCEPT ![k] = FALSE]
    /\ IF seq[k] \in {"waiting", "failed"}
       THEN afterLoadWait(k, "timeout")
       ELSE UNCHANGED <<seq, queued, hist>>
    /\ UNCHANGED <<frame, root, page, innerWidth, sessionStorage, store, phase,
                   inst, effects, retry>>

\* the 3000 ms timer fires: resolve() lets loadVideo go on if it still waits,
\* and is without effect on a promise that is already settled
LoadTimeout(k) ==
    /\ phase \in {"live", "dead"}
    /\ loadTimer[k]
    /\ loadTimer' = [loadTimer EXCEPT ![k] = FALSE]
    /\ IF seq[k] = "waiting"
       THEN afterLoadWait(k, "timeout")
       ELSE UNCHANGED <<seq, queued, hist>>
    /\ UNCHANGED <<frame, root, page, innerWidth, sessionStorage, store, phase,
                   inst, effects, retry>>

\* PlaySettles that marks the variant ready only when play() resolved
PlaySettles_readyIfPlaying(k, ok) ==
    /\ phase \in {"live", "dead"}
    /\ seq[k] = "playing"
    /\ retry' = [retry EXCEPT ![k] = IF ok THEN @ ELSE "timer"]
    /\ seq' = [seq EXCEPT ![k] = "settled"]
    /\ queued' = setVideoReady(k, ok)
    /\ UNCHANGED <<frame, root, page, innerWidth, sessionStorage, store, phase,
                   inst, effects, loadTimer, hist>>

\* the first play() promise settles.  Rejected: the catch callback schedules
\* the retry timer and returns, so the awaited promise resolves; either way
\* loadVideo goes on to setVideoReady(true).
PlaySettles(k, ok) ==
    /\ phase \in {"live", "dead"}
    /\ seq[k] = "playing"
    /\ retry' = [retry EXCEPT ![k] = IF ok THEN @ ELSE "timer"]
    /\ seq' = [seq EXCEPT ![k] = "settled"]
    /\ queued' = setVideoReady(k, TRUE)
    /\ UNCHANGED <<frame, root, page, innerWidth, sessionStorage, store, phase,
                   inst, effects, loadTimer, hist>>

\* the 100 ms retry timer fires: video.play() once more
RetryFires(k) ==
    /\ phase \in {"live", "dead"}
    /\ retry[k] = "timer"
    /\ retry' = [retry EXCEPT ![k] = "pending"]
    /\ hist' = [hist EXCEPT !.playRequests[k] = Inc(@)]
    /\ UNCHANGED <<frame, root, page, innerWidth, sessionStorage, store, phase,
                   inst, queued, effects, seq, loadTimer>>

\* RetrySettles whose catch callback schedules one more retry
RetrySettles_retriesAgain(k, ok) ==
    /\ phase \in {"live", "dead"}
    /\ retry[k] = "pending"
    /\ retry' = [retry EXCEPT ![k] = IF ok THEN "resolved" ELSE "timer"]
    /\ UNCHANGED <<frame, root, page, innerWidth, sessionStorage, store, phase,
                   inst, queued, effects, seq, loadTimer, hist>>

\* the retry's play() promise settles; .catch(() => {}) swallows a rejection
RetrySettles(k, ok) ==
    /\ phase \in {"live", "dead"}
    /\ retry[k] = "pending"
    /\ retry' = [retry EXCEPT ![k] = IF ok THEN "resolved" ELSE "rejected"]
    /\ UNCHANGED <<frame, root, page, innerWidth, sessionStorage, store, phase,
                   inst, queued, effects, seq, loadTimer, hist>>

(***************************************************************************)
(* The simple controller's loadVideo: no load wait, no retry.              *)
(***************************************************************************)
\* setVideoLoaded(true)
setVideoLoaded(value) ==
    setState([queued EXCEPT !.videoReady["main"] = value])

\* the 100 ms timer fires: video.load(); video.play(); when play() returns no
\* promise videoLoaded is set at once
DelayedLoad ==
    /\ component = "simple"
    /\ seq["main"] = "delay"
    /\ hist' = [hist EXCEPT !.playRequests["main"] = Inc(@)]
    /\ IF playReturnsPromise
       THEN /\ seq' = [seq EXCEPT !["main"] = "autoplay"]
            /\ UNCHANGED queued
       ELSE /\ seq' = [seq EXCEPT !["main"] = "loaded"]
            /\ queued' = setVideoLoaded(TRUE)
    /\ UNCHANGED <<frame, root, page, innerWidth, sessionStorage, store, phase,
                   inst, effects, loadTimer, retry>>

\* await playPromise: resolved, setVideoLoaded(true); rejected, the catch
\* block warns and videoLoaded stays false
AutoplaySettles(ok) ==
    /\ component = "simple"
    /\ seq["main"] = "autoplay"
    /\ IF ok
       THEN /\ seq' = [seq EXCEPT !["main"] = "loaded"]
            /\ queued' = setVideoLoaded(TRUE)
       ELSE /\ seq' = [seq EXCEPT !["main"] = "refused"]
            /\ UNCHANGED queued
    /\ UNCHANGED <<frame, root, page, innerWidth, sessionStorage, store, phase,
                   inst, effects, loadTimer, retry, hist>>

(***************************************************************************)
(* The tap-to-play controller: playVideo from the mount effect's timer or  *)
(* from the overlay, no load wait, no retry, no InteractionRecord.         *)
(***************************************************************************)
\* playVideo past its guard: video.currentTime = 0; await video.play().
\* When play() returns no promise the await resumes in the same task and
\* setVideoReady(true) follows at once.
playVideo ==
    /\ hist' = [hist EXCEPT !.playRequests["main"] = Inc(@)]
    /\ seq' = [seq EXCEPT !["main"] = IF playReturnsPromise
                                      THEN "autoplay" ELSE "loaded"]

\* the state playVideo leaves when it is called with the state q
playVideoState(q) ==
    IF playReturnsPromise THEN q ELSE [q EXCEPT !.videoReady["main"] = TRUE]

\* onClick of the overlay <div>: setNeedsInteraction(false); playVideo().
\* The overlay is in the DOM only while the client render is mounted, and
\* then videoRef.current is the <video>.  A click is a discrete event.
handleUserInteraction ==
    /\ component = "tapToPlay"
    /\ phase = "live"
    /\ inst.overlay
    /\ playVideo
    /\ LET c == syncRender(inst,
                    playVideoState([queued EXCEPT !.needsInteraction = FALSE]),
                    inst.isDarkMode, inst.isThemeLoaded)
       IN  /\ inst' = c.i
           /\ queued' = c.q
    /\ effects' = {}
    /\ UNCHANGED <<frame, root, page, innerWidth, sessionStorage, store, phase,
                   loadTimer, retry>>

\* the 100 ms timer of the mount effect fires: playVideo().  videoRef.current
\* is the <video> of the committed client render; before that render (the
\* fallback branch has no <video>) and after unmount it is null, and
\* playVideo returns at if (!video) return.
PlayTimer ==
    /\ component = "tapToPlay"
    /\ seq["main"] = "delay"
    /\ IF clientRendered
       THEN /\ playVideo
            /\ queued' = playVideoState(queued)
       ELSE /\ seq' = [seq EXCEPT !["main"] = "unloaded"]
            /\ UNCHANGED <<queued, hist>>
    /\ UNCHANGED <<frame, root, page, innerWidth, sessionStorage, store, phase,
                   inst, effects, loadTimer, retry>>

\* await video.play() settles: resolved, setVideoReady(true); rejected, the
\* catch block logs and videoReady stays false
PlayVideoSettles(ok) ==
    /\ component = "tapToPlay"
    /\ seq["main"] = "autoplay"
    /\ IF ok
       THEN /\ seq' = [seq EXCEPT !["main"] = "loaded"]
            /\ queued' = setState([queued EXCEPT !.videoReady["main"] = TRUE])
       ELSE /\ seq' = [seq EXCEPT !["main"] = "refused"]
            /\ UNCHANGED queued
    /\ UNCHANGED <<frame, root, page, innerWidth, sessionStorage, store, phase,
                   inst, effects, loadTimer, retry, hist>>

(***************************************************************************)
(* ThemeProvider and the next-themes store it reads.                       *)
(***************************************************************************)
\* The next-themes store changes to (th, resolved), with stored as the
\* preference it keeps; own is the palette of the
\* animation frame the caller requested before it changed the store ("none":
\* it requested no frame).  ThemeProvider renders with the new theme, and a
\* mounted dual-theme controller with the new context value: React first
\* runs the passive effects that are still pending, the render shows every
\* stored state, and the effects of the render run before the step ends:
\* the controller's, then ThemeProvider's "On theme resolution" effect, which
\* requests a frame for the new isDarkMode and calls setIsThemeLoaded(true).
\* That update is stored; a later task renders it (RenderUpdate).  An error
\* thrown by a controller effect of this commit does not keep ThemeProvider's
\* effect (another fiber of the same commit) from running: the tree is
\* unmounted after the flush.  An error thrown by an effect that was still
\* pending unmounts the tree before the render: nothing is committed and
\* ThemeProvider's effect does not run.
storeChange(stored, th, resolved, own) ==
    LET mounted == phase \in {"rendered", "live"} /\ component = "dualTheme"
        dark == currentTheme(th, resolved) = "dark"
        pendingThrew == mounted /\ afterEffects(inst, queued, effects).i.effectError
        c == IF mounted THEN syncRender(inst, queued, dark, queuedLoaded)
             ELSE [i |-> inst, q |-> queued, loads |-> {}, timer |-> FALSE,
                   read |-> hist.hasInteracted]
        runs == providerEffectRuns(th, resolved) /\ ~pendingThrew
    IN  /\ storedTheme' = stored
        /\ theme' = th
        /\ resolvedTheme' = resolved
        /\ themeLoaded' = queuedLoaded
        /\ queuedLoaded' = (queuedLoaded \/ runs)
        /\ frame' = IF runs THEN themeVariant(dark)
                    ELSE IF own # "none" THEN own ELSE frame
        /\ inst' = c.i
        /\ queued' = c.q
        /\ effects' = {}
        /\ startLoads(c.loads)
        /\ phase' = IF mounted THEN phaseOf(c.i) ELSE phase
        /\ hist' = [hist EXCEPT !.hasInteracted = c.read]
        /\ UNCHANGED <<root, page, innerWidth, sessionStorage, retry>>

\* next-themes resolves the stored preference after hydration; with the
\* preference 'system' the platform's scheme may be known only later
ThemeResolves ==
    /\ providerMounted
    /\ theme = "undefined"
    /\ \E sys \in {"undefined", "light", "dark"} :
          storeChange(storedTheme, storedTheme,
                      IF storedTheme = "system" THEN sys ELSE storedTheme,
                      "none")

\* the platform's color scheme changes, or becomes known, while the
\* preference is 'system'
SystemThemeChanges ==
    /\ providerMounted
    /\ theme = "system"
    /\ \E sys \in {"light", "dark"} \ {resolvedTheme} :
          storeChange(storedTheme, theme, sys, "none")

\* toggleTheme that requests the theme it already shows
toggleTheme_sameTheme ==
    /\ providerMounted
    /\ LET isDarkMode == contextValue(theme, resolvedTheme, themeLoaded).isDarkMode
           next == IF isDarkMode THEN "dark" ELSE "light"
       IN  storeChange(next, next, next, themeVariant(isDarkMode))

\* toggleTheme(): const next = isDarkMode ? 'light' : 'dark';
\* updateThemeVariables(!isDarkMode); setTheme(next).  Called from a click
\* handler of a consumer.
toggleTheme ==
    /\ providerMounted
    /\ LET isDarkMode == contextValue(theme, resolvedTheme, themeLoaded).isDarkMode
           next == IF isDarkMode THEN "light" ELSE "dark"
       IN  storeChange(next, next, next, themeVariant(~isDarkMode))

\* updateThemeVariables that adds the class and palette of isDark and
\* removes nothing
updateThemeVariables_addsOnly(r, isDark) ==
    [dark    |-> r.dark \/ isDark,
     light   |-> r.light \/ ~isDark,
     palette |-> IF isDark THEN "dark" ELSE "light"]

\* the callback updateThemeVariables passes to requestAnimationFrame:
\* classList.toggle('dark', isDark); classList.toggle('light', !isDark);
\* the eight setProperty calls of the palette of isDark
updateThemeVariables(r, isDark) ==
    [dark    |-> isDark,
     light   |-> ~isDark,
     palette |-> IF isDark THEN "dark" ELSE "light"]

\* toggleTheme() called twice in one task, by a consumer holding the
\* toggleTheme of its last render: both calls read the isDarkMode of that
\* render, so both compute the same next, both request a frame for the same
\* palette, and the two setTheme(next) calls ask for the same preference
toggleThemeTwice ==
    /\ providerMounted
    /\ LET isDarkMode == contextValue(theme, resolvedTheme, themeLoaded).isDarkMode
           next == IF isDarkMode THEN "light" ELSE "dark"
       IN  storeChange(next, next, next, themeVariant(~isDarkMode))

\* the next animation frame: the browser runs every callback that was
\* requested before the frame, no other task in between
RunFrame ==
    /\ frame # "none"
    /\ root' = updateThemeVariables(root, frame = "dark")
    /\ frame' = "none"
    /\ UNCHANGED <<page, innerWidth, sessionStorage, store, phase, inst,
                   queued, effects, seq, loadTimer, retry, hist>>

(***************************************************************************)
(* The transition-commit timer of the dual-theme controller.               *)
(***************************************************************************)
\* setTimeout(() => { setActiveVideo(newActiveVideo) }, 300) fires: the
\* update is stored, and rendered later (RenderUpdate)
TransitionCommit ==
    /\ phase \in {"live", "dead"}
    /\ inst.transitionTimeoutRef # "null"
    /\ inst' = [inst EXCEPT !.transitionTimeoutRef = "null",
                            !.pendingCommits = @ - 1]
    /\ queued' = setState([queued EXCEPT
                              !.activeVideo = inst.transitionTimeoutRef])
    /\ UNCHANGED <<frame, root, page, innerWidth, sessionStorage, store, phase,
                   effects, seq, loadTimer, retry, hist>>

(***************************************************************************)
(* Resize: the window's width changes.  A discrete event for the           *)
(* controllers that listen for it.  AuroraStarsBackground and              *)
(* ThemeProvider never read the width: it is followed on the pages of the  *)
(* controllers that do.                                                    *)
(***************************************************************************)
Resize(width) ==
    /\ component \in {"deviceClass", "twoElement", "simple", "tapToPlay"}
    /\ width # innerWidth
    /\ innerWidth' = width
    /\ IF inst.resizeListener /\ phase = "live"
       THEN LET c == syncRender(inst, handleResize(queued, width),
                                inst.isDarkMode, inst.isThemeLoaded)
            IN  /\ inst' = c.i
                /\ queued' = c.q
                /\ startLoads(c.loads)
                /\ effects' = {}
       ELSE UNCHANGED <<inst, queued, effects, seq, loadTimer>>
    /\ UNCHANGED <<frame, root, page, sessionStorage, phase, store, retry, hist>>

(***************************************************************************)
(* Specifications.                                                         *)
(***************************************************************************)
\* the pages without a dual-theme controller under a ThemeProvider
InitPages ==
    \/ InitDevice
    \/ InitSimple
    \/ InitTwoElement
    \/ InitTapToPlay
    \/ InitThemeOnly
    \/ InitAurora /\ ~hasProvider

Init ==
    \/ InitPages
    \/ InitAurora

Next ==
    \/ Mount
    \/ MountEffect
    \/ RenderUpdate
    \/ FlushEffects
    \/ Unmount
    \/ Touchstart
    \/ Click
    \/ \E k \in Keys(component) : CanPlayThrough(k)
    \/ \E k \in Keys(component) : MediaError(k)
    \/ \E k \in Keys(component) : LoadTimeout(k)
    \/ \E k \in Keys(component), ok \in BOOLEAN : PlaySettles(k, ok)
    \/ \E k \in Keys(component) : RetryFires(k)
    \/ \E k \in Keys(component), ok \in BOOLEAN : RetrySettles(k, ok)
    \/ DelayedLoad
    \/ \E ok \in BOOLEAN : AutoplaySettles(ok)
    \/ handleUserInteraction
    \/ PlayTimer
    \/ \E ok \in BOOLEAN : PlayVideoSettles(ok)
    \/ ThemeResolves
    \/ SystemThemeChanges
    \/ toggleTheme
    \/ toggleThemeTwice
    \/ RunFrame
    \/ TransitionCommit
    \/ \E width \in Widths : Resize(width)

\* any of the controllers under RootLayout, every interleaving of the browser's
\* events, timers and promise settlements
Spec == Init /\ [][Next]_vars

\* The dual-theme controller under a ThemeProvider multiplies the sessions:
\* the properties are checked per kind of session, each together with every
\* other page.
\* A browser that lets video play unasked (isSafariOrIOS false) and returns
\* a promise from play(), no InteractionRecord, any stored preference.
AutoplayInit ==
    \/ InitPages
    \/ /\ InitAurora
       /\ hasProvider /\ playReturnsPromise
       /\ ~isSafariOrIOS(ua)
       /\ sessionStorage = "null"

AutoplaySpec == AutoplayInit /\ [][Next]_vars

\* A browser that holds playback back until a gesture (isSafariOrIOS true),
\* no InteractionRecord at the first mount, a stored preference of light or
\* dark.
GestureInit ==
    \/ InitPages
    \/ /\ InitAurora
       /\ hasProvider /\ playReturnsPromise
       /\ isSafariOrIOS(ua)
       /\ sessionStorage = "null"
       /\ storedTheme \in {"light", "dark"}

GestureSpec == GestureInit /\ [][Next]_vars

\* The InteractionRecord is present at the first mount, in either kind of
\* browser, with a stored preference of light or dark.
RecordInit ==
    \/ InitPages
    \/ /\ InitAurora
       /\ hasProvider /\ playReturnsPromise
       /\ sessionStorage = "true"
       /\ storedTheme \in {"light", "dark"}

RecordSpec == RecordInit /\ [][Next]_vars

\* A browser whose play() returns undefined, in either kind of browser, with
\* or without the record, any stored preference.
NoPromiseInit ==
    \/ InitPages
    \/ /\ InitAurora
       /\ hasProvider /\ ~playReturnsPromise

NoPromiseSpec == NoPromiseInit /\ [][Next]_vars

\* The event loop runs every task that is ready: the effects of a render
\* run, a queued update is rendered, an animation frame comes, a pending
\* timer fires.  Nothing makes a play() promise settle: the code awaits it
\* without a timeout, and on a stalled load it stays pending.
Fairness ==
    /\ WF_vars(MountEffect)
    /\ WF_vars(RenderUpdate)
    /\ WF_vars(FlushEffects)
    /\ WF_vars(RunFrame)
    /\ \A k \in AllKeys : WF_vars(LoadTimeout(k))

FairSpec == NoPromiseSpec /\ Fairness

\* The 300 ms commit timer of the dual-theme controller fires once set, and
\* React renders what it stored.
CommitFairness ==
    /\ WF_vars(MountEffect)
    /\ WF_vars(RenderUpdate)
    /\ WF_vars(FlushEffects)
    /\ WF_vars(TransitionCommit)

CommitFairSpec == NoPromiseSpec /\ CommitFairness


(***************************************************************************)
(* Properties.                                                             *)
(***************************************************************************)
\* the theme the page currently requests, as the controller's useTheme() sees it
requestedVariant ==
    themeVariant(useTheme(hasProvider, theme, resolvedTheme, themeLoaded).isDarkMode)

shown(k) == inst.opacity[k] = 1

\* C1: in the dual-theme controller, after client mount, a video's displayed
\* opacity is 1 exactly when its variant is the one the current theme selects,
\* it is marked ready and interaction is satisfied, and is 0 otherwise; so at
\* most one video is shown, and the poster is at opacity 1 exactly when no
\* video is shown.
C1_CrossFade ==
    (component = "dualTheme" /\ clientRendered) =>
        /\ \A k \in ThemeKeys :
              shown(k) <=> /\ k = requestedVariant
                           /\ inst.videoReady[k]
                           /\ inst.userInteracted
        /\ \A k \in ThemeKeys : inst.opacity[k] \in {0, 1}
        /\ Cardinality({k \in ThemeKeys : shown(k)}) <= 1
        /\ inst.fallbackOpacity = 1 <=> \A k \in ThemeKeys : ~shown(k)
        /\ inst.fallbackOpacity \in {0, 1}

\* C1 witness: the theme switch effect has acted (its commit timer is pending)
\* and the incoming dark video is shown while the outgoing one is ready too
C1_Witness ==
    /\ component = "dualTheme" /\ phase = "live"
    /\ inst.transitionTimeoutRef = "dark"
    /\ inst.activeVideo = "light"
    /\ inst.videoReady["light"] /\ inst.videoReady["dark"]
    /\ shown("dark") /\ ~shown("light")

\* C2 (as claimed): every commit the transition timer executes (the
\* activeVideo it stores) is the commit of the theme requested at that
\* moment; a commit of an intermediate theme has been cancelled and never
\* executes.
C2_OnlyFinalCommitted ==
    [][(TransitionCommit /\ phase = "live")
          => queued'.activeVideo = requestedVariant]_vars

\* C3 (as claimed): a dual-theme controller rendered without a ThemeProvider
\* ancestor does not get past its useTheme() call: the render raises.
C3_MissingProviderIsFatal ==
    (component = "dualTheme" /\ ~hasProvider /\ phase # "none") => phase = "crashed"


\* C4 (as claimed): when canplaythrough never arrives and no media error
\* occurs, a load sequence that waits still marks its variant ready: the
\* 3000 ms timeout lets it go on; and the load wait of a sequence is left
\* exactly once, a late timeout after canplaythrough or error changes nothing.
C4_TimeoutFallback ==
    /\ \A k \in AllKeys :
          (phase = "live" /\ seq[k] = "waiting")
             ~> (queued.videoReady[readyKey(k)] \/ hist.resolvedBy[k] = "error"
                   \/ phase # "live")
    /\ [](\A k \in AllKeys :
            /\ hist.waitResolutions[k] <= 1
            /\ (phase = "live" /\ hist.resolvedBy[k] = "timeout"
                  /\ seq[k] = "settled") => queued.videoReady[readyKey(k)]
            /\ (seq[k] \in {"playing", "settled"}) =>
                  hist.waitResolutions[k] = 1)

\* C5: when the playback request rejected and the single retry rejected too,
\* the variant is marked ready all the same (setVideoReady has stored true).
C5_ReadyAfterTwoRejections ==
    \A k \in AllKeys :
        (phase = "live" /\ retry[k] = "rejected") => queued.videoReady[readyKey(k)]

\* C5 witness: in the dual-theme controller both playback requests of the
\* light and of the dark sequence were rejected (autoplay is blocked) and
\* both variants are rendered ready
C5_Witness ==
    /\ phase = "live" /\ component = "dualTheme"
    /\ \A k \in ThemeKeys :
          /\ retry[k] = "rejected"
          /\ hist.playRequests[k] = 2
          /\ inst.videoReady[k]

\* the controllers that keep one videoReady entry per load sequence of
\* loadVideo (awaiting canplaythrough / error / 3000 ms)
hasLoadWait == component \in {"dualTheme", "deviceClass"}

\* C6: in the dual-theme controller (and in the device-class one, whose
\* loadVideo is the same) a videoReady entry is true only after the load
\* sequence of that same variant left its load wait without a media error
\* and issued a playback request on that variant's element; no sequence sets
\* another entry.
C6_ReadyOnlyAfterOwnSequence ==
    \A k \in AllKeys :
        (hasLoadWait /\ (queued.videoReady[k] \/ inst.videoReady[k])) =>
            /\ k \in Keys(component)
            /\ seq[k] = "settled"
            /\ hist.resolvedBy[k] \in {"canplaythrough", "timeout"}
            /\ hist.playRequests[k] >= 1

\* C6 witness: light is ready by its own sequence while dark's failed
C6_Witness ==
    /\ component = "dualTheme" /\ phase = "live"
    /\ inst.videoReady["light"] /\ ~inst.videoReady["dark"]
    /\ seq["dark"] = "failed"

\* C7: when the InteractionRecord read by the mount effect is 'true', the
\* overlay is in the DOM in no state of that mount, restricted browser or not.
C7_NoOverlayWithRecord ==
    inst.overlay => (clientRendered /\ ~hist.hasInteracted)

\* C7 witness: a restricted browser mounted with the record already 'true'
C7_Witness ==
    /\ phase = "live"
    /\ isSafariOrIOS(ua)
    /\ hist.hasInteracted
    /\ inst.userInteracted /\ ~inst.overlay

\* C8: in a controller that keeps the InteractionRecord,
\* on a restricted browser without a record the overlay is in the DOM in
\* every state after client mount until a touchstart or click arrives; that
\* one gesture sets userInteracted and the record, and from then on the
\* overlay is never in the DOM again, later mounts included.
C8_OverlayUntilGesture ==
    /\ []((persistsRecord /\ isSafariOrIOS(ua) /\ clientRendered
             /\ sessionStorage = "null") => inst.overlay)
    /\ [](sessionStorage = "true" => (~inst.overlay /\
                                      (clientRendered => inst.userInteracted)))
    /\ [][((Touchstart \/ Click) /\ persistsRecord /\ inst.overlay)
            => (inst'.userInteracted /\ sessionStorage' = "true" /\ ~inst'.overlay)]_vars
    /\ [][sessionStorage = "true" => sessionStorage' = "true"]_vars

\* C8 witness: the gesture was handled in this mount and the overlay is gone
C8_Witness ==
    /\ phase = "live" /\ component = "dualTheme"
    /\ isSafariOrIOS(ua)
    /\ ~hist.hasInteracted
    /\ hist.handlerRuns = 1
    /\ inst.userInteracted /\ sessionStorage = "true" /\ ~inst.overlay

\* const currentAssets = isMobile ? VIDEO_ASSETS.mobile : VIDEO_ASSETS.desktop
currentAssets(st) == IF st.isMobile THEN "mobile" ELSE "desktop"

\* device-class controller, live, on a viewport wider than 768 px
wideDevice == component = "deviceClass" /\ phase = "live" /\ innerWidth > MobileMaxWidth

\* readiness of the device-class controller is reached, short of a media
\* error or an unmount
readyOrExcused ==
    queued.videoReady["main"] \/ hist.resolvedBy["main"] = "error" \/ phase # "live"

\* C9 (as claimed): with any user agent that contains "Chrome", on a viewport
\* wider than 768 px, the overlay is never rendered, the desktop asset is the
\* selected one and videoReady becomes true without a gesture (short of a
\* media error or an unmount).
C9_ChromeLikeEndToEnd ==
    /\ []((component = "deviceClass" /\ "chrome" \in ua) => ~inst.overlay)
    /\ []((wideDevice /\ "chrome" \in ua) => currentAssets(inst) = "desktop")
    /\ (wideDevice /\ "chrome" \in ua) ~> readyOrExcused

\* C10: handleInteraction runs at most once per mount and its two document
\* listeners are registered together and removed together: none is left after
\* it ran or after unmount, and a later gesture changes nothing at all.
C10_ListenerOnceAndRemoved ==
    /\ [](hist.handlerRuns <= 1)
    /\ [](inst.listeners \in {{}, {"touchstart", "click"}})
    /\ []((hist.handlerRuns >= 1 \/ phase # "live") => inst.listeners = {})
    /\ [][((Touchstart \/ Click) /\ (hist.handlerRuns >= 1 \/ phase = "dead"))
            => UNCHANGED vars]_vars

\* C10 witness: unmounted on a restricted browser before any gesture arrived
C10_Witness ==
    /\ phase = "dead"
    /\ isSafariOrIOS(ua) /\ sessionStorage = "null"
    /\ ~inst.userInteracted
    /\ hist.handlerRuns = 0
    /\ inst.listeners = {}

\* the variant the page selects: the theme's video, or the only video
selected(k) ==
    IF component = "dualTheme" THEN k = requestedVariant
    ELSE IF component = "twoElement" THEN k = boundElement(inst)
    ELSE k = "main"

\* C11: when the media error event ended a variant's load wait, the variant
\* is marked not ready and its sequence is over (failed), in every later state
\* of the mount, a late 3000 ms timeout included; while that variant is the
\* selected one it is not shown and the poster is at opacity 1.
C11_ErrorMeansPoster ==
    \A k \in AllKeys :
        (phase = "live" /\ hist.resolvedBy[k] = "error") =>
            /\ ~inst.videoReady[readyKey(k)] /\ ~queued.videoReady[readyKey(k)]
            /\ seq[k] = "failed"
            /\ hist.playRequests[k] = 0
            /\ selected(k) => (~shown(k) /\ inst.fallbackOpacity = 1)

\* C11 witness: light failed by a media error, its late timeout has fired,
\* light is the selected variant and the poster shows although dark is ready
C11_Witness ==
    /\ phase = "live" /\ component = "dualTheme"
    /\ hist.resolvedBy["light"] = "error" /\ ~loadTimer["light"]
    /\ requestedVariant = "light"
    /\ inst.videoReady["dark"] /\ inst.userInteracted
    /\ inst.fallbackOpacity = 1 /\ ~shown("light") /\ ~shown("dark")

\* a user agent with none of the mobile keywords of any controller's list
nonMobileAgent == ua \cap (MobileKeywords \cup mobileKeywords) = {}

\* the controllers that classify the device, and the function each calls
classifies == component \in {"deviceClass", "twoElement", "simple", "tapToPlay"}

classOf(width) ==
    IF component = "twoElement" THEN detectMobile(ua, width)
    ELSE IF component = "simple" THEN checkMobileSimple(ua, width)
    ELSE checkMobile(ua, width)

\* a resize event that the controller's listener hears
resizeHeard == innerWidth' # innerWidth /\ phase = "live" /\ inst.resizeListener

\* C12: the device class is mobile at every width <= 768 whatever the user
\* agent and desktop at every width > 768 when the agent has no mobile
\* keyword, as the functions return it and as the mount effect and the
\* resize listener store it from the width they read; checkMobile and
\* detectMobile return the same class on every input.
C12_DetectDeviceClass ==
    /\ [](innerWidth <= MobileMaxWidth =>
            /\ checkMobile(ua, innerWidth) /\ detectMobile(ua, innerWidth)
            /\ checkMobileSimple(ua, innerWidth))
    /\ []((innerWidth > MobileMaxWidth /\ nonMobileAgent) =>
            /\ ~checkMobile(ua, innerWidth) /\ ~detectMobile(ua, innerWidth)
            /\ ~checkMobileSimple(ua, innerWidth))
    /\ [](checkMobile(ua, innerWidth) <=> detectMobile(ua, innerWidth))
    /\ [][(classifies /\ (MountEffect \/ resizeHeard)) =>
            /\ queued'.isMobile = classOf(innerWidth')
            /\ (innerWidth' <= MobileMaxWidth) => queued'.isMobile
            /\ (innerWidth' > MobileMaxWidth /\ nonMobileAgent) => ~queued'.isMobile
            /\ (component = "twoElement") =>
                  (queued'.isMobile <=> checkMobile(ua, innerWidth'))]_vars

\* C12 witness: the two-element controller was resized from a narrow to a
\* 769 px viewport after its load started on the mobile element, and
\* detectMobile now stores desktop for a keyword-free agent
C12_Witness ==
    /\ component = "twoElement" /\ phase = "live"
    /\ innerWidth = MobileMaxWidth + 1 /\ ua = UA_Firefox
    /\ seq["mobile"] # "unloaded" /\ seq["desktop"] = "unloaded"
    /\ ~inst.isMobile /\ inst.resizeListener

\* C13: isSafariOrIOS is true of every agent with "Safari" and without
\* "Chrome" and false of every agent with "Chrome", whatever else the agent
\* contains; the controllers act on exactly that verdict: with "Chrome" no
\* overlay and no document listener in any state, with "Safari" alone and no
\* record the overlay and both listeners once the mount effect has run.
C13_BrowserRestriction ==
    /\ ("safari" \in ua /\ "chrome" \notin ua) => isSafariOrIOS(ua)
    /\ "chrome" \in ua => ~isSafariOrIOS(ua)
    /\ ("chrome" \in ua /\ persistsRecord) =>
          /\ ~inst.overlay /\ inst.listeners = {}
          /\ clientRendered => inst.userInteracted
    /\ ("safari" \in ua /\ "chrome" \notin ua /\ persistsRecord
          /\ clientRendered /\ sessionStorage = "null") =>
          /\ inst.overlay /\ inst.listeners = {"touchstart", "click"}
          /\ ~inst.userInteracted

\* C13 witness: Safari on a Mac, mounted without a record, is held back
C13_Witness ==
    /\ component = "deviceClass" /\ phase = "live"
    /\ ua = UA_SafariMac /\ sessionStorage = "null"
    /\ inst.isClient /\ inst.overlay /\ ~inst.userInteracted

\* C14: every toggleTheme call requests 'light' when isDarkMode is true and
\* 'dark' when it is false; the frame it leaves requested writes the palette
\* of the negation of isDarkMode, whatever was requested before; with the
\* request applied isDarkMode is that negation, in the store and in the
\* render of a controller that is still mounted after the call.
C14_ToggleInverts ==
    [][toggleTheme =>
         /\ theme' = (IF isDarkModeNow THEN "light" ELSE "dark")
         /\ isDarkModeNow' = ~isDarkModeNow
         /\ frame' = themeVariant(~isDarkModeNow)
         /\ (component = "dualTheme" /\ phase' = "live") =>
               inst'.isDarkMode = ~isDarkModeNow
      ]_vars

\* C14 witness: under a mounted dual-theme controller the root shows the
\* dark palette, the preference has been toggled to light, the controller
\* is rendered with isDarkMode false and the frame of the call is pending
C14_Witness ==
    /\ component = "dualTheme" /\ hasProvider /\ phase = "live"
    /\ root = [dark |-> TRUE, light |-> FALSE, palette |-> "dark"]
    /\ theme = "light" /\ ~isDarkModeNow
    /\ inst.isThemeLoaded /\ ~inst.isDarkMode
    /\ frame = "light"

\* C15: isThemeLoaded is false as long as no concrete theme has been
\* resolved (currentTheme undefined: no preference yet, or 'system' with the
\* platform's scheme unknown): neither rendered nor stored as true.
\* setIsThemeLoaded(true) stores it in the step of the first resolution that
\* yields a concrete theme and in no other step, a render shows true only
\* after that, and once stored or rendered as true it is never false again.
C15_ThemeLoadedOnce ==
    /\ [](currentTheme(theme, resolvedTheme) = "undefined" =>
            (~themeLoaded /\ ~queuedLoaded))
    /\ [](themeLoaded => queuedLoaded)
    /\ [][/\ themeLoaded => themeLoaded'
          /\ queuedLoaded => queuedLoaded'
          /\ (~queuedLoaded /\ queuedLoaded') <=>
                (/\ currentTheme(theme, resolvedTheme) = "undefined"
                 /\ currentTheme(theme', resolvedTheme') \in {"light", "dark"})
         ]_vars

\* C15 witness: the preference resolved to 'system' before the platform's
\* scheme was known; the scheme has arrived as dark and setIsThemeLoaded(true)
\* was called, but no render has shown the flag yet: the mounted dual-theme
\* controller is rendered with the dark theme and isThemeLoaded false
C15_Witness ==
    /\ hasProvider /\ component = "dualTheme" /\ phase = "live"
    /\ theme = "system" /\ resolvedTheme = "dark"
    /\ queuedLoaded /\ ~themeLoaded
    /\ inst.isDarkMode /\ ~inst.isThemeLoaded

\* C16 (as claimed): the steps of one load sequence are strictly sequential:
\* playback is requested only after the load wait was left, the retry only
\* after the first request, and readiness is marked only after the retry, so
\* an entry is never true while the retry of its sequence is still to be
\* issued (its 100 ms timer runs) or still pending.
C16_StrictlySequential ==
    \A k \in AllKeys :
        /\ hist.playRequests[k] >= 1 =>
              (hist.waitResolutions[k] = 1 \/ component \in {"simple", "tapToPlay"})
        /\ retry[k] # "none" => hist.playRequests[k] >= 1
        /\ (phase = "live" /\ seq[k] = "settled" /\ queued.videoReady[readyKey(k)])
              => retry[k] \notin {"timer", "pending"}

\* C17: a rejected first playback request starts the retry timer, a resolved
\* one does not; the timer issues one more request and no timer is started
\* after it, so a sequence issues at most two requests, the second exactly
\* when it retried; a rejected retry changes nothing but the retry itself.
C17_SingleRetry ==
    /\ [](\A k \in AllKeys :
            /\ hist.playRequests[k] <= 2
            /\ hist.playRequests[k] = 2 <=>
                  retry[k] \in {"pending", "resolved", "rejected"}
            /\ retry[k] # "none" => seq[k] = "settled")
    /\ [][\A k \in AllKeys :
            /\ PlaySettles(k, FALSE) => (retry[k] = "none" /\ retry'[k] = "timer")
            /\ PlaySettles(k, TRUE) => (retry[k] = "none" /\ retry'[k] = "none")
            /\ RetryFires(k) => hist'.playRequests[k] = 2
            /\ (retry[k] = "pending" /\ retry'[k] = "rejected") =>
                  UNCHANGED <<inst, queued, effects, seq, loadTimer, hist,
                              sessionStorage>>
         ]_vars

\* C17 witness: in the dual-theme controller the first request of either
\* sequence was rejected; the retry of the light one was rejected too, that
\* of the dark one went through, and neither sequence asked a third time
C17_Witness ==
    /\ component = "dualTheme" /\ phase = "live"
    /\ retry["light"] = "rejected" /\ retry["dark"] = "resolved"
    /\ hist.playRequests["light"] = 2
    /\ hist.playRequests["dark"] = 2

\* a step inside one mount: the instance is mounted before it and not replaced
sameMount == phase = "live" /\ phase' \in {"live", "dead"}

\* the steps of one load sequence: Unloaded -> Loading -> {Ready | Failed}
sequenceStep(from, to) ==
    \/ from = to
    \/ from = "unloaded" /\ to = "waiting"
    \/ from = "waiting" /\ to \in {"playing", "settled", "failed"}
    \/ from = "playing" /\ to = "settled"

\* C18: inside one mount a load sequence only moves forward and settled
\* (Ready) and failed are final; a videoReady entry that is true stays true,
\* the entry of a failed sequence is never set true, and userInteracted,
\* once true, stays true.
C18_TerminalPerMount ==
    [][sameMount =>
         /\ inst.userInteracted => inst'.userInteracted
         /\ queued.userInteracted => queued'.userInteracted
         /\ \A k \in AllKeys :
               /\ inst.videoReady[k] => inst'.videoReady[k]
               /\ queued.videoReady[k] => queued'.videoReady[k]
               /\ persistsRecord => sequenceStep(seq[k], seq'[k])
               /\ seq[k] = "failed" => (/\ ~inst'.videoReady[readyKey(k)]
                                        /\ ~queued'.videoReady[readyKey(k)])
      ]_vars

\* C18 witness: the device-class controller waited for a gesture, its one
\* sequence is Ready, retry and fallback timer are over
C18_Witness ==
    /\ component = "deviceClass" /\ phase = "live"
    /\ hist.handlerRuns = 1 /\ inst.userInteracted
    /\ seq["main"] = "settled" /\ inst.videoReady["main"]
    /\ retry["main"] = "resolved" /\ ~loadTimer["main"]

\* the controllers that keep a userInteracted state
gatesOnInteraction == component # "tapToPlay"

\* C19: no video.load() and no video.play() without interaction: in the
\* controllers that keep userInteracted a load sequence that has started, a
\* playback request or retry that was issued, and a theme switch that got
\* past its guard (where it calls play() on the incoming video) are found
\* only with userInteracted true.
C19_NoLoadWithoutInteraction ==
    /\ \A k \in AllKeys :
          (gatesOnInteraction /\
             (seq[k] # "unloaded" \/ hist.playRequests[k] >= 1 \/ retry[k] # "none"
                \/ loadTimer[k])) => inst.userInteracted
    /\ inst.transitionTimeoutRef # "null" =>
          (inst.userInteracted /\ inst.isThemeLoaded)

\* C19 witness: a restricted browser, theme loaded and dark, no gesture yet:
\* nothing is loaded and the theme switch has not started
C19_Witness ==
    /\ component = "dualTheme" /\ phase = "live"
    /\ isSafariOrIOS(ua) /\ ~inst.userInteracted
    /\ inst.isThemeLoaded /\ inst.isDarkMode /\ inst.activeVideo = "light"
    /\ inst.transitionTimeoutRef = "null"
    /\ \A k \in ThemeKeys : seq[k] = "unloaded" /\ inst.opacity[k] = 0

\* the load sequence of variant k takes a step (past its start)
sequenceMoves(k) ==
    \/ seq[k] # "unloaded" /\ seq'[k] # seq[k]
    \/ retry'[k] # retry[k]
    \/ loadTimer[k] /\ ~loadTimer'[k]

\* C20: in the dual-theme controller the two load sequences start in the
\* same step; a step of one sequence (canplaythrough, media error, timeout,
\* playback settled, retry) leaves the other sequence and the other
\* videoReady entry as they are; and in every live state each entry of the
\* state is true exactly when its own sequence is settled, whatever the
\* other one did, and a rendered entry is true only then.
C20_IndependentSequences ==
    /\ [](component = "dualTheme" =>
            /\ seq["light"] = "unloaded" <=> seq["dark"] = "unloaded"
            /\ phase = "live" =>
                  \A k \in ThemeKeys :
                      /\ queued.videoReady[k] <=> seq[k] = "settled"
                      /\ inst.videoReady[k] => seq[k] = "settled")
    /\ [][(component = "dualTheme" /\ phase \in {"live", "dead"}
            /\ phase' \in {"live", "dead"}) =>
            \A k \in ThemeKeys : \A j \in ThemeKeys \ {k} :
                (sequenceMoves(k) /\ ~sequenceMoves(j)) =>
                    /\ seq'[j] = seq[j]
                    /\ inst'.videoReady[j] = inst.videoReady[j]
                    /\ queued'.videoReady[j] = queued.videoReady[j]
                    /\ hist'.playRequests[j] = hist.playRequests[j]
                    /\ hist'.resolvedBy[j] = hist.resolvedBy[j]
         ]_vars

\* C20 witness: playback was rejected in both variants.  Dark completed
\* first, by its timeout, and both its requests were rejected; light, which
\* got canplaythrough, is marked ready in the state but its retry is still
\* to be issued and the render does not show it yet
C20_Witness ==
    /\ component = "dualTheme" /\ phase = "live"
    /\ hist.resolvedBy["dark"] = "timeout" /\ retry["dark"] = "rejected"
    /\ hist.resolvedBy["light"] = "canplaythrough" /\ retry["light"] = "timer"
    /\ inst.videoReady["dark"] /\ ~inst.videoReady["light"]
    /\ queued.videoReady["light"]

\* a step that flips the theme, mounts or unmounts
flipOrMount ==
    \/ theme' # theme
    \/ resolvedTheme' # resolvedTheme
    \/ phase' # phase

\* activeVideo is the variant of the isDarkMode the controller rendered, in
\* a controller that is mounted or that its own theme switch effect took down
activeFollowsTheme ==
    (/\ component = "dualTheme" /\ (phase = "live" \/ inst.effectError)
     /\ inst.userInteracted /\ inst.isThemeLoaded)
        => inst.activeVideo = themeVariant(inst.isDarkMode)

\* C21 (as claimed): when the theme flips (and the mounts) come to an end,
\* then from some point on, with interaction satisfied and the theme loaded,
\* activeVideo is the variant of the current isDarkMode and remains so.
C21_ActiveFollowsLastTheme ==
    (<>[][~flipOrMount]_vars) => <>[]activeFollowsTheme

\* C22: unmount cancels the commit timer: no timer is pending in any state
\* after unmount, so none fires there, and activeVideo is the same in every
\* state from the unmount on.
C22_UnmountCancelsCommit ==
    /\ [](phase = "dead" => inst.transitionTimeoutRef = "null")
    /\ [][TransitionCommit => phase = "live"]_vars
    /\ [][(Unmount \/ (phase = "dead" /\ phase' = "dead"))
            => (/\ inst'.activeVideo = inst.activeVideo
                /\ queued'.activeVideo = queued.activeVideo)]_vars

\* C22 witness: unmounted in the middle of a switch to dark: interaction and
\* theme were there, dark is requested, activeVideo is still light, and the
\* timer that would have committed dark is gone
C22_Witness ==
    /\ component = "dualTheme" /\ phase = "dead"
    /\ inst.userInteracted /\ inst.isThemeLoaded
    /\ inst.isDarkMode /\ inst.activeVideo = "light"
    /\ inst.transitionTimeoutRef = "null"

\* a step after unmount, before any new mount
afterUnmount == phase = "dead" /\ phase' = "dead"

\* C23 (as claimed): after unmount an in-flight load sequence issues no
\* further playback request and performs no readiness update.
C23_SequenceStopsAtUnmount ==
    [][afterUnmount =>
         /\ hist'.playRequests = hist.playRequests
         /\ queued'.videoReady = queued.videoReady
         /\ inst'.videoReady = inst.videoReady]_vars

\* C23 (amended): after unmount an in-flight load sequence performs no
\* readiness update and changes nothing the component rendered; it may go on
\* to request playback, once and once more on retry, on the removed element.
C23_NoReadinessAfterUnmount ==
    [][afterUnmount =>
         /\ queued' = queued
         /\ inst'.videoReady = inst.videoReady
         /\ inst'.opacity = inst.opacity
         /\ inst'.fallbackOpacity = inst.fallbackOpacity
         /\ \A k \in AllKeys : hist'.playRequests[k] <= 2]_vars

\* C23 witness: unmounted during the load wait; the sequence went on by its
\* timeout, requested playback, retried, and the entry was never set
C23_Witness ==
    /\ component = "dualTheme" /\ phase = "dead"
    /\ hist.resolvedBy["light"] = "timeout" /\ seq["light"] = "settled"
    /\ hist.playRequests["light"] = 2 /\ retry["light"] = "resolved"
    /\ ~inst.videoReady["light"]

\* the document root as updateThemeVariables(isDark) leaves it
rootOf(isDark) ==
    [dark |-> isDark, light |-> ~isDark,
     palette |-> IF isDark THEN "dark" ELSE "light"]

\* C24: the document root is as the page was served (neither class, no
\* variable) or, once a frame of updateThemeVariables has been applied, has
\* exactly one of the classes 'dark' and 'light' and the palette of that
\* class; while ThemeProvider is mounted with the theme resolved and no frame
\* is left requested, class and palette are those of isDarkMode, whatever
\* toggleTheme calls and theme resolutions came before.
C24_RootMatchesTheme ==
    hasProvider =>
        /\ root = InitialRoot \/ root \in {rootOf(TRUE), rootOf(FALSE)}
        /\ (/\ providerMounted
            /\ currentTheme(theme, resolvedTheme) # "undefined"
            /\ frame = "none") => root = rootOf(isDarkModeNow)

\* C24 witness: under a live dual-theme controller the theme was dark and
\* committed, toggleTheme then made it light, and every frame has run: the
\* root carries 'light' and its palette while the dark video is still the
\* active one
C24_Witness ==
    /\ hasProvider /\ component = "dualTheme" /\ phase = "live"
    /\ theme = "light" /\ themeLoaded
    /\ inst.activeVideo = "dark"
    /\ frame = "none" /\ root = rootOf(FALSE)

\* the mount effect found interaction satisfied: record present, or a
\* browser that is neither Safari nor iOS
satisfiedAtMount == hist.hasInteracted \/ ~isSafariOrIOS(ua)

\* C25 (as claimed): per mount the controller writes 'videoInteraction' at
\* most once, the value it writes is 'true', and it writes nothing when
\* interaction was satisfied at mount without a gesture.
C25_RecordWrittenOnce ==
    (persistsRecord /\ phase \in {"live", "dead"}) =>
        /\ hist.storageWrites <= 1
        /\ hist.storageWrites > 0 => sessionStorage = "true"
        /\ satisfiedAtMount => hist.storageWrites = 0

\* the device-class controllers that listen for resize events
resizeAware == component \in {"deviceClass", "twoElement"}

\* detectDeviceClass as the mounted controller calls it
detectDeviceClass(agent, width) ==
    IF component = "twoElement" THEN detectMobile(agent, width)
    ELSE checkMobile(agent, width)

\* the mount is complete and nothing is left to render or to run
settled == clientRendered /\ effects = {} /\ ~updateQueued

\* C26 (as claimed): in the device-class controllers with a resize listener,
\* after mount (the client render shown, its effects run) and after every
\* resize event isMobile is detectDeviceClass of the current viewport width
\* and user agent, and the selected asset pair is the one of that class;
\* after unmount a resize event changes no state of the component.
C26_ClassFollowsViewport ==
    /\ []((resizeAware /\ settled) =>
            /\ inst.resizeListener
            /\ inst.isMobile = detectDeviceClass(ua, innerWidth)
            /\ currentAssets(inst) =
                  (IF detectDeviceClass(ua, innerWidth) THEN "mobile" ELSE "desktop"))
    /\ [][(phase = "dead" /\ innerWidth' # innerWidth) => inst' = inst]_vars

\* a load sequence leaves its initial state in this step
loadStarts == \E k \in AllKeys : seq[k] = "unloaded" /\ seq'[k] # "unloaded"

\* C27: the dual-theme controller starts no load sequence while isThemeLoaded
\* is false; rendered without a ThemeProvider ancestor it reads the default
\* handle, isThemeLoaded is false in every state, no load sequence starts, no
\* videoReady entry becomes true and the poster stays at opacity 1, also
\* after interaction is satisfied.
C27_NoLoadBeforeThemeLoaded ==
    /\ [][(component = "dualTheme" /\ loadStarts) => inst'.isThemeLoaded]_vars
    /\ []((component = "dualTheme" /\ ~hasProvider /\ phase # "none") =>
            /\ ~inst.isThemeLoaded
            /\ \A k \in ThemeKeys :
                  /\ seq[k] = "unloaded"
                  /\ ~inst.videoReady[k] /\ ~queued.videoReady[k]
                  /\ inst.opacity[k] = 0
            /\ inst.fallbackOpacity = 1)

\* C27 witness: no ThemeProvider ancestor, mounted on Safari, the gesture
\* was made, and still nothing is loaded and the poster is shown
C27_Witness ==
    /\ component = "dualTheme" /\ ~hasProvider /\ phase = "live"
    /\ isSafariOrIOS(ua) /\ hist.storageWrites > 0
    /\ inst.isClient /\ inst.userInteracted /\ ~inst.isThemeLoaded
    /\ seq["light"] = "unloaded" /\ inst.fallbackOpacity = 1

\* the device class the component rendered with changes in this step of a
\* mounted controller
classFlips == phase = "live" /\ phase' = "live" /\ inst'.isMobile # inst.isMobile

\* C28 (as claimed): in the device-class controllers a video shown at opacity
\* 1 is the media the device class selects and it went through the
\* load-and-play sequence: in the two-element controller the shown element
\* is the bound one and its own sequence requested playback and settled; in
\* the single-element controller a change of class, and so of src, while the
\* video is shown hides the video or starts a new sequence.
C28_ShownMediaWasLoaded ==
    /\ []((component = "twoElement" /\ phase = "live") =>
            \A k \in DeviceKeys :
                shown(k) => /\ k = boundElement(inst)
                            /\ seq[k] = "settled"
                            /\ hist.playRequests[k] >= 1)
    /\ [][(component = "deviceClass" /\ classFlips /\ shown("main")) =>
            (inst'.opacity["main"] = 0 \/ loadStarts)]_vars

\* const next = isDarkMode ? 'light' : 'dark', as toggleTheme computes it in
\* a provider rendered with the store at (th, resolved)
nextPreference(th, resolved) ==
    IF contextValue(th, resolved, TRUE).isDarkMode THEN "light" ELSE "dark"

\* C29 (as claimed): two toggleTheme calls leave the requested preference and
\* the displayed isDarkMode as they were before the first call, both when the
\* two calls are made in one task, before the provider has rendered again,
\* and when the second call follows the render of the first.
C29_DoubleToggleRestores ==
    /\ [][toggleThemeTwice =>
            /\ theme' = theme
            /\ isDarkModeNow' = isDarkModeNow]_vars
    /\ [][toggleTheme =>
            /\ nextPreference(theme', resolvedTheme') = theme
            /\ (nextPreference(theme', resolvedTheme') = "dark") = isDarkModeNow]_vars

\* the theme the provider publishes changes in this step
themeFlips == theme' # theme \/ resolvedTheme' # resolvedTheme

\* C30: in the dual-theme controller at most one transition-commit timer is
\* pending in every reachable state, the pending one being the one the ref
\* holds; within a mount the activeVideo state changes only in the step in
\* which a commit timer fires, never in the step of a theme flip, and a
\* render shows a new activeVideo only when a timer stored it before.
C30_OneCommitTimer ==
    /\ [](component = "dualTheme" =>
            /\ inst.pendingCommits \in {0, 1}
            /\ inst.pendingCommits = 1 <=> inst.transitionTimeoutRef # "null")
    /\ [][(component = "dualTheme" /\ sameMount
              /\ queued'.activeVideo # queued.activeVideo)
            => (TransitionCommit /\ ~themeFlips)]_vars
    /\ [][(component = "dualTheme" /\ sameMount
              /\ inst'.activeVideo # inst.activeVideo)
            => inst'.activeVideo = queued.activeVideo]_vars

\* C30 witness: 'light' is active and the dark video shown during the
\* transition; a readiness update re-ran the effect, which replaced the
\* timer: one commit timer is pending, for 'dark'
C30_Witness ==
    /\ component = "dualTheme" /\ phase = "live"
    /\ inst.activeVideo = "light" /\ inst.isDarkMode
    /\ inst.videoReady["light"] /\ inst.videoReady["dark"] /\ shown("dark")
    /\ inst.pendingCommits = 1 /\ inst.transitionTimeoutRef = "dark"

=============================================================================
